---- MODULE Spec2Model ----
(***************************************************************************)
(* A model of the two agents of the repository:                            *)
(*   OCRAgent (src/agents/ocr_agent.py)  - the document pipeline           *)
(*   AIAgent  (src/agents/ai_agent.py)   - the conversational agent        *)
(*                                                                         *)
(* Text is a sequence of one-character strings, so that strip, split and   *)
(* join are computed and not assumed.  The OCR primitive, the image        *)
(* decoder and the model runtime are the environment: each of their        *)
(* answers is a nondeterministic choice made when the call completes.      *)
(* A caller is single-threaded: pc is its position, op the operation it    *)
(* is executing (kept, with ret, after the operation has ended).           *)
(***************************************************************************)
EXTENDS Integers, Sequences, FiniteSets, TLC

VARIABLES
    pc,       \* position of the caller: "idle", "load", "ocr", "model"
    op,       \* the operation in progress or, when idle, the last one: name and arguments
    ret,      \* how the last operation ended: a value, or an exception raised to the caller
    prompt,   \* the rendered prompt of the latest model-runtime call of this operation
    reply,    \* the raw text the model runtime answered to that call
    calls,    \* number of model-runtime calls issued by this operation
    memory,   \* AIAgent.memory: the conversation log, a sequence of turns
    mem0,     \* the conversation log as it was when the operation started
    prevOp,   \* the operation that ended before this one started: its name and its mem0
    idx,      \* batch_process: 1-based position of the loop over image_paths
    results,  \* batch_process: the list of results built so far
    img,      \* processed_img of the extraction in progress
    ocr,      \* ocr_result of the process_document in progress
    failed,   \* positions whose processing raised an exception: those of the
              \* entries of batch_process, position 0 for every other operation
    environ,  \* os.environ: the environment variables that are set, with their values
    tesseract_cmd,  \* pytesseract.pytesseract.tesseract_cmd, a module attribute
    instances \* the AIAgent and OCRAgent objects constructed so far, in order

vars == <<pc, op, ret, prompt, reply, calls, memory, mem0, prevOp,
          idx, results, img, ocr, failed, environ, tesseract_cmd, instances>>

\* the state outside of the one agent whose operations are followed step by step
world == <<environ, tesseract_cmd, instances>>

-----------------------------------------------------------------------------
(* Bounds of the model *)

MaxTokens == 3        \* tokens in one answer of the OCR primitive
ConfScale == 2        \* a token score is a multiple of 1/ConfScale
MaxResponseLen == 6   \* characters of a model response that is parsed
MaxBatch == 3         \* entries of one batch_process call
MaxTurns == 4         \* turns the conversation log may hold before a chat is refused

-----------------------------------------------------------------------------
(* Text *)

None == [none |-> TRUE]

IsSpace(c) == c \in {" ", "\n"}

RECURSIVE LStrip(_)
LStrip(s) ==
    IF s = <<>> THEN <<>>
    ELSE IF IsSpace(Head(s)) THEN LStrip(Tail(s)) ELSE s

RECURSIVE RStrip(_)
RStrip(s) ==
    IF s = <<>> THEN <<>>
    ELSE IF IsSpace(s[Len(s)]) THEN RStrip(SubSeq(s, 1, Len(s) - 1)) ELSE s

StripLeadingOnly(s) == LStrip(s)

\* str.strip()
Strip(s) == RStrip(LStrip(s))

\* position of the first c in s, 0 when there is none
RECURSIVE Find(_, _)
Find(s, c) ==
    IF s = <<>> THEN 0
    ELSE IF Head(s) = c THEN 1
    ELSE LET r == Find(Tail(s), c) IN IF r = 0 THEN 0 ELSE r + 1

\* str.split(sep) for a one-character sep: always at least one part
RECURSIVE Split(_, _)
Split(s, sep) ==
    LET i == Find(s, sep) IN
    IF i = 0 THEN <<s>>
    ELSE <<SubSeq(s, 1, i - 1)>> \o Split(SubSeq(s, i + 1, Len(s)), sep)

\* sep.join(parts)
RECURSIVE Join(_, _)
Join(parts, sep) ==
    IF parts = <<>> THEN <<>>
    ELSE IF Len(parts) = 1 THEN parts[1]
    ELSE parts[1] \o sep \o Join(Tail(parts), sep)

RECURSIVE Sum(_)
Sum(ns) == IF ns = <<>> THEN 0 ELSE Head(ns) + Sum(Tail(ns))

\* all sequences over S of length at most n
SeqsUpTo(S, n) == UNION {[1..k -> S] : k \in 0..n}

-----------------------------------------------------------------------------
(* Outcomes of an operation *)

NoRet == [kind |-> "none"]
Value(v) == [kind |-> "value", value |-> v]
Raised(e) == [kind |-> "raise", error |-> e]

ImageLoadError == [type |-> "ValueError", msg |-> "Failed to load image"]
UnsupportedImage == [type |-> "TypeError", msg |-> "Unsupported image object"]
OCREngineError == [type |-> "TesseractError", msg |-> "tesseract failed"]
ModelUnavailable == [type |-> "ModelUnavailable", msg |-> "model runtime call failed"]

-----------------------------------------------------------------------------
(* OCRAgent.extract_text_with_confidence: the aggregation of lines 179-196 *)

\* one row of the OCR primitive's answer: data['text'][i] and data['conf'][i];
\* conf is the score times ConfScale, so that fractional scores exist
Tok(t, c) == [text |-> t, conf |-> c]

IntOfRounds(c) == (c + ConfScale \div 2) \div ConfScale

\* int(conf): Python truncates toward zero
IntOf(c) == IF c >= 0 THEN c \div ConfScale ELSE -((-c) \div ConfScale)

IncludedOffByOne(conf) == IntOf(conf) >= 0

\* line 184: if int(conf) > 0
Included(conf) == IntOf(conf) > 0

\* the rows the loop of lines 183-186 keeps, in order
RECURSIVE Kept(_)
Kept(data) ==
    IF data = <<>> THEN <<>>
    ELSE (IF Included(Head(data).conf) THEN <<Head(data)>> ELSE <<>>) \o Kept(Tail(data))

text_parts(data) == [i \in 1..Len(Kept(data)) |-> Kept(data)[i].text]

confidences(data) == [i \in 1..Len(Kept(data)) |-> IntOf(Kept(data)[i].conf)]

\* line 189: sum(confidences) / len(confidences) if confidences else 0, as the
\* exact quotient num/den
avg_confidence(confs) ==
    IF confs # <<>> THEN [num |-> Sum(confs), den |-> Len(confs)]
    ELSE [num |-> 0, den |-> 1]

\* lines 188-196
OcrResult(data) ==
    [text       |-> Strip(Join(text_parts(data), <<" ">>)),
     confidence |-> avg_confidence(confidences(data)),
     word_count |-> Len(text_parts(data)),
     details    |-> data]

\* answers of the OCR primitive explored for a direct extraction
\* rows scored -1, 0, between 0 and 1, 1 and 2 + 1/ConfScale
TokenTexts == {<<"a">>, <<"b">>, <<" ">>}
TokenConfs == {-ConfScale, 0, 1, ConfScale, 2 * ConfScale + 1, 100 * ConfScale}
Tokens == {Tok(t, c) : t \in TokenTexts, c \in TokenConfs}
OcrAnswers == SeqsUpTo(Tokens, MaxTokens)

\* answers of the OCR primitive explored inside process_document: a blank page,
\* a page of blanks, and the page with scores 90, -1, 80, 0
PageAnswers ==
    { <<Tok(<<>>, -ConfScale)>>,
      <<Tok(<<" ">>, 95 * ConfScale)>>,
      <<Tok(<<"a">>, 90 * ConfScale), Tok(<<>>, -ConfScale),
        Tok(<<"b">>, 80 * ConfScale), Tok(<<"a">>, 0)>> }

-----------------------------------------------------------------------------
(* Prompt templates *)

Lit(s) == [lit |-> s]
Slot(name) == [slot |-> name]

RenderPromptFirstOnly(template, params) ==
    [i \in 1..Len(template) |->
        IF "slot" \in DOMAIN template[i]
           /\ \A j \in 1..(i - 1) : template[j] # template[i]
        THEN [val |-> params[template[i].slot]]
        ELSE template[i]]

\* PromptTemplate.format: every {name} is replaced by the value given for it
RenderPrompt(template, params) ==
    [i \in 1..Len(template) |->
        IF "slot" \in DOMAIN template[i]
        THEN [val |-> params[template[i].slot]]
        ELSE template[i]]

\* OCRAgent.analyze_extracted_text, lines 209-230
AnalysisTemplates ==
    [summary |->
        <<Lit("Provide a concise summary of the following text:\n\nText: "),
          Slot("text"), Lit("\n\nSummary:")>>,
     key_points |->
        <<Lit("Extract the key points from the following text:\n\nText: "),
          Slot("text"), Lit("\n\nKey Points:")>>,
     entities |->
        <<Lit("Extract named entities (people, organizations, locations, dates) from the following text:\n\nText: "),
          Slot("text"), Lit("\n\nEntities:")>>,
     classification |->
        <<Lit("Classify the type of document this text is from (e.g., invoice, letter, form, receipt):\n\nText: "),
          Slot("text"), Lit("\n\nDocument Type:")>>]

TemplateForOrKeyPoints(analysis_type) ==
    IF analysis_type \in DOMAIN AnalysisTemplates
    THEN AnalysisTemplates[analysis_type]
    ELSE AnalysisTemplates["key_points"]

\* line 232: templates.get(analysis_type, templates["summary"])
TemplateFor(analysis_type) ==
    IF analysis_type \in DOMAIN AnalysisTemplates
    THEN AnalysisTemplates[analysis_type]
    ELSE AnalysisTemplates["summary"]

\* lines 232-236: the prompt analyze_extracted_text sends
AnalysisPrompt(text, analysis_type) ==
    RenderPrompt(TemplateFor(analysis_type), [text |-> text])

KnownKinds == {"summary", "key_points", "entities", "classification"}
AnalysisKinds == KnownKinds \cup {"unknown_kind"}

\* raw answers of the model runtime explored for the analysis prompts
AnalysisReplies == {<<"a">>, <<" ", "b", "\n">>}

\* texts given directly to analyze_extracted_text
AnalysisTexts == {<<>>, <<"a">>, <<"a", " ", "b">>}

ImagePaths == {"a.png", "bad.png"}

\* analysis kinds given to batch_process: the default of line 280
BatchKinds == {"summary"}

-----------------------------------------------------------------------------
(* Images *)

NoImage == [state |-> "unset"]
PyNone == [state |-> "None"]
Array(steps) == [state |-> "array", steps |-> steps]

preprocess_imageIfEnhance(decoded, enhance) ==
    IF ~decoded /\ enhance THEN Raised(ImageLoadError)
    ELSE Value(Array(IF enhance THEN <<"gray", "denoise", "threshold">> ELSE <<"gray">>))

\* OCRAgent.preprocess_image on a path: the decoded image (or the failure to
\* decode it) and the steps applied
preprocess_image(decoded, enhance) ==
    IF ~decoded THEN Raised(ImageLoadError)
    ELSE Value(Array(IF enhance THEN <<"gray", "denoise", "threshold">> ELSE <<"gray">>))

\* lines 162-170 (and 128-136): the image handed to the OCR primitive
processed_img(decoded, preprocess) ==
    IF preprocess THEN preprocess_image(decoded, TRUE)
    ELSE Value(IF decoded THEN Array(<<>>) ELSE PyNone)

-----------------------------------------------------------------------------
(* Control *)

\* an environment in which no variable is set
NoVariables == [v \in {} |-> ""]

\* the value pytesseract gives tesseract_cmd when it is imported
DefaultTesseractCmd == "tesseract"

InitProgram ==
    /\ pc = "idle"
    /\ op = [name |-> "none"]
    /\ ret = NoRet
    /\ prompt = None
    /\ reply = None
    /\ calls = 0
    /\ memory = <<>>
    /\ mem0 = <<>>
    /\ prevOp = [name |-> "none", mem0 |-> <<>>]
    /\ idx = 0
    /\ results = <<>>
    /\ img = NoImage
    /\ ocr = None
    /\ failed = {}
    /\ tesseract_cmd = DefaultTesseractCmd
    /\ instances = <<>>

\* the program starts with none of the four variables set
Init == InitProgram /\ environ = NoVariables

\* a caller invokes operation o
BeginOp(o) ==
    /\ pc = "idle"
    /\ op' = o
    /\ prevOp' = [name |-> op.name, mem0 |-> mem0]
    /\ mem0' = memory
    /\ reply' = None
    /\ results' = <<>>
    /\ img' = NoImage
    /\ ocr' = None
    /\ failed' = {}

\* a caller invokes an operation that leaves the environment, the module
\* attribute and the other objects alone
Begin(o) == BeginOp(o) /\ UNCHANGED world

InBatch == op.name = "batch_process"

\* the image_path of the process_document in progress
CurPath == IF InBatch THEN op.image_paths[idx] ELSE op.image_path

\* lines 260-265
DocResult(path, r) ==
    [image_path     |-> path,
     extracted_text |-> r.text,
     confidence     |-> r.confidence,
     word_count     |-> r.word_count]

\* lines 268-272: result["analysis"] = ...
WithAnalysis(d, a) ==
    [image_path     |-> d.image_path,
     extracted_text |-> d.extracted_text,
     confidence     |-> d.confidence,
     word_count     |-> d.word_count,
     analysis       |-> a]

BatchExceptKeepsText(rs, path, e) ==
    Append(rs, IF "text" \in DOMAIN ocr
               THEN [image_path |-> path, error |-> e.msg, extracted_text |-> ocr.text]
               ELSE [image_path |-> path, error |-> e.msg])

BatchExceptSwallow(rs, path, e) == rs

\* lines 298-302: the except branch of batch_process
BatchExcept(rs, path, e) == Append(rs, [image_path |-> path, error |-> e.msg])

BatchAppendFirst(rs, result) == <<result>> \o rs

\* line 297
BatchAppend(rs, result) == Append(rs, result)

\* the for loop of line 294 moves on, or line 304 returns
Advance ==
    /\ idx' = idx + 1
    /\ IF idx + 1 > Len(op.image_paths)
       THEN pc' = "idle" /\ ret' = Value(results')
       ELSE pc' = "load" /\ ret' = ret

\* process_document returned d
DocDone(d) ==
    IF InBatch
    THEN /\ results' = BatchAppend(results, d)
         /\ failed' = failed
         /\ Advance
    ELSE /\ pc' = "idle"
         /\ ret' = Value(d)
         /\ UNCHANGED <<idx, results, failed>>

PropagateSwallow(e) ==
    IF InBatch
    THEN /\ results' = BatchExcept(results, CurPath, e)
         /\ failed' = failed \cup {idx}
         /\ Advance
    ELSE /\ pc' = "idle"
         /\ ret' = Value(<<>>)
         /\ failed' = failed \cup {idx}
         /\ UNCHANGED <<idx, results>>

\* exception e leaves the operation: batch_process catches it (line 298), every
\* other operation lets it reach the caller
Propagate(e) ==
    IF InBatch
    THEN /\ results' = BatchExcept(results, CurPath, e)
         /\ failed' = failed \cup {idx}
         /\ Advance
    ELSE /\ pc' = "idle"
         /\ ret' = Raised(e)
         /\ failed' = failed \cup {idx}
         /\ UNCHANGED <<idx, results>>

-----------------------------------------------------------------------------
(* OCRAgent: the operations *)

Extracting ==
    op.name \in {"extract_text", "extract_text_with_confidence", "process_document",
                 "batch_process"}

\* whether the extraction in progress preprocesses: process_document calls
\* extract_text_with_confidence(image_path), so with the default True (line 258)
Preprocessing ==
    IF op.name \in {"extract_text", "extract_text_with_confidence"} THEN op.preprocess
    ELSE TRUE

\* extract_text_with_confidence(image, preprocess) is called
StartExtractWithConfidence(image, preprocess) ==
    /\ Begin([name |-> "extract_text_with_confidence",
              image_path |-> image, preprocess |-> preprocess])
    /\ pc' = "load"
    /\ ret' = NoRet
    /\ prompt' = None
    /\ calls' = 0
    /\ idx' = 0
    /\ UNCHANGED memory

\* extract_text(image, preprocess) is called
StartExtractText(image, preprocess) ==
    /\ Begin([name |-> "extract_text", image_path |-> image, preprocess |-> preprocess])
    /\ pc' = "load"
    /\ ret' = NoRet
    /\ prompt' = None
    /\ calls' = 0
    /\ idx' = 0
    /\ UNCHANGED memory

\* analyze_extracted_text(text, analysis_type) is called: lines 209-236, up to
\* the call of the model runtime
StartAnalyze(text, analysis_type) ==
    /\ Begin([name |-> "analyze_extracted_text",
              text |-> text, analysis_type |-> analysis_type])
    /\ pc' = "model"
    /\ ret' = NoRet
    /\ prompt' = AnalysisPrompt(text, analysis_type)
    /\ calls' = 1
    /\ idx' = 0
    /\ UNCHANGED memory

\* process_document(image_path, analyze, analysis_type) is called
StartProcessDocument(image_path, analyze, analysis_type) ==
    /\ Begin([name |-> "process_document", image_path |-> image_path,
              analyze |-> analyze, analysis_type |-> analysis_type])
    /\ pc' = "load"
    /\ ret' = NoRet
    /\ prompt' = None
    /\ calls' = 0
    /\ idx' = 0
    /\ UNCHANGED memory

\* batch_process(image_paths, analyze, analysis_type) is called: lines 293-294,
\* and line 304 when there is nothing to process
StartBatchProcess(image_paths, analyze, analysis_type) ==
    /\ Begin([name |-> "batch_process", image_paths |-> image_paths,
              analyze |-> analyze, analysis_type |-> analysis_type])
    /\ prompt' = None
    /\ calls' = 0
    /\ idx' = IF image_paths = <<>> THEN 0 ELSE 1
    /\ IF image_paths = <<>>
       THEN pc' = "idle" /\ ret' = Value(<<>>)
       ELSE pc' = "load" /\ ret' = NoRet
    /\ UNCHANGED memory

\* lines 162-170: the image is decoded (or not) and preprocessed (or not)
LoadImage(decoded) ==
    /\ pc = "load"
    /\ Extracting
    /\ LET p == processed_img(decoded, Preprocessing) IN
       IF p.kind = "raise"
       THEN /\ Propagate(p.error)
            /\ UNCHANGED <<img, ocr>>
       ELSE /\ img' = p.value
            /\ pc' = "ocr"
            /\ UNCHANGED <<ret, idx, results, failed, ocr>>
    /\ UNCHANGED <<world, op, prompt, reply, calls, memory, mem0, prevOp>>

\* lines 173-177: the OCR primitive is given None and refuses it
OcrRejectsImage ==
    /\ pc = "ocr"
    /\ img = PyNone
    /\ Propagate(UnsupportedImage)
    /\ img' = NoImage
    /\ UNCHANGED <<world, op, prompt, reply, calls, memory, mem0, prevOp, ocr>>

\* lines 173-177: the OCR primitive fails on an image
OcrEngineFails ==
    /\ pc = "ocr"
    /\ img.state = "array"
    /\ Propagate(OCREngineError)
    /\ img' = NoImage
    /\ UNCHANGED <<world, op, prompt, reply, calls, memory, mem0, prevOp, ocr>>

\* lines 173-196 of a direct extract_text_with_confidence: the OCR primitive
\* answers data, and the result is built and returned
ExtractReturns(data) ==
    /\ pc = "ocr"
    /\ op.name = "extract_text_with_confidence"
    /\ img.state = "array"
    /\ pc' = "idle"
    /\ ret' = Value(OcrResult(data))
    /\ img' = NoImage
    /\ UNCHANGED <<world, op, prompt, reply, calls, memory, mem0, prevOp, idx, results, failed, ocr>>

\* strings the OCR primitive answers to extract_text
OcrStrings == {<<>>, <<"a">>, <<" ", "a", "\n">>}

\* lines 139-145 of extract_text: the OCR primitive answers text, which is
\* returned stripped
ExtractTextReturns(text) ==
    /\ pc = "ocr"
    /\ op.name = "extract_text"
    /\ img.state = "array"
    /\ pc' = "idle"
    /\ ret' = Value(Strip(text))
    /\ img' = NoImage
    /\ UNCHANGED <<world, op, prompt, reply, calls, memory, mem0, prevOp, idx, results, failed, ocr>>

AnalysisWantedIgnoringText(analyze, text) == analyze

\* line 268: if analyze and ocr_result["text"]
AnalysisWanted(analyze, text) == analyze /\ text # <<>>

\* lines 173-196 inside process_document, then lines 260-272 up to the call of
\* the model runtime, or to the return of line 274 when there is no analysis
PageOcrReturns(data) ==
    /\ pc = "ocr"
    /\ op.name \in {"process_document", "batch_process"}
    /\ img.state = "array"
    /\ img' = NoImage
    /\ LET r == OcrResult(data) IN
       IF AnalysisWanted(op.analyze, r.text)
       THEN /\ pc' = "model"
            /\ ocr' = r
            /\ prompt' = AnalysisPrompt(r.text, op.analysis_type)
            /\ calls' = calls + 1
            /\ reply' = None
            /\ UNCHANGED <<ret, idx, results, failed>>
       ELSE /\ DocDone(DocResult(CurPath, r))
            /\ UNCHANGED <<ocr, prompt, calls, reply>>
    /\ UNCHANGED <<world, op, memory, mem0, prevOp>>

\* lines 236-238: the model runtime answers r to an analysis prompt
AnalysisReturns(r) ==
    /\ pc = "model"
    /\ op.name \in {"analyze_extracted_text", "process_document", "batch_process"}
    /\ reply' = r
    /\ IF op.name = "analyze_extracted_text"
       THEN /\ pc' = "idle"
            /\ ret' = Value(Strip(r))
            /\ UNCHANGED <<idx, results, failed>>
       ELSE DocDone(WithAnalysis(DocResult(CurPath, ocr), Strip(r)))
    /\ ocr' = None
    /\ UNCHANGED <<world, op, prompt, calls, memory, mem0, prevOp, img>>

\* the call of the model runtime fails: no operation catches it but batch_process
ModelFails ==
    /\ pc = "model"
    /\ Propagate(ModelUnavailable)
    /\ ocr' = None
    /\ UNCHANGED <<world, op, prompt, reply, calls, memory, mem0, prevOp, img>>

\* preprocess_image(image, enhance) is called on a path
StartPreprocess(image, enhance) ==
    /\ Begin([name |-> "preprocess_image", image |-> image, enhance |-> enhance])
    /\ pc' = "load"
    /\ ret' = NoRet
    /\ prompt' = None
    /\ calls' = 0
    /\ idx' = 0
    /\ UNCHANGED memory

\* lines 80-81: img = cv2.imread(image), which is None when the file cannot be
\* decoded
PreprocessLoads(decoded) ==
    /\ pc = "load"
    /\ op.name = "preprocess_image"
    /\ img' = IF decoded THEN Array(<<>>) ELSE PyNone
    /\ pc' = "preprocess"
    /\ UNCHANGED <<world, op, ret, prompt, reply, calls, memory, mem0, prevOp, idx, results,
                   ocr, failed>>

\* lines 87-109: the check of img, then the steps, then the return
PreprocessRuns ==
    /\ pc = "preprocess"
    /\ LET p == preprocess_image(img # PyNone, op.enhance) IN
       IF p.kind = "raise"
       THEN Propagate(p.error)
       ELSE /\ pc' = "idle"
            /\ ret' = p
            /\ UNCHANGED <<idx, results, failed>>
    /\ UNCHANGED <<world, op, prompt, reply, calls, memory, mem0, prevOp, img, ocr>>

NextOCR ==
    \/ pc = "idle" /\ \E preprocess \in BOOLEAN :
           StartExtractWithConfidence("a.png", preprocess)
    \/ \E decoded \in BOOLEAN : LoadImage(decoded)
    \/ OcrRejectsImage
    \/ OcrEngineFails
    \/ pc = "ocr" /\ \E data \in OcrAnswers : ExtractReturns(data)
    \/ pc = "idle" /\ \E preprocess \in BOOLEAN : StartExtractText("a.png", preprocess)
    \/ pc = "ocr" /\ \E text \in OcrStrings : ExtractTextReturns(text)
    \/ pc = "idle" /\ \E image \in ImagePaths, enhance \in BOOLEAN :
           StartPreprocess(image, enhance)
    \/ \E decoded \in BOOLEAN : PreprocessLoads(decoded)
    \/ PreprocessRuns

SpecOCR == Init /\ [][NextOCR]_vars

NextPipeline ==
    \/ pc = "idle" /\ \E text \in AnalysisTexts, k \in AnalysisKinds :
           StartAnalyze(text, k)
    \/ pc = "idle" /\ \E path \in ImagePaths, analyze \in BOOLEAN, k \in AnalysisKinds :
           StartProcessDocument(path, analyze, k)
    \/ pc = "idle" /\ \E paths \in SeqsUpTo(ImagePaths, MaxBatch), analyze \in BOOLEAN,
                         k \in BatchKinds :
           StartBatchProcess(paths, analyze, k)
    \/ \E decoded \in BOOLEAN : LoadImage(decoded)
    \/ OcrEngineFails
    \/ pc = "ocr" /\ \E data \in PageAnswers : PageOcrReturns(data)
    \/ pc = "model" /\ \E r \in AnalysisReplies : AnalysisReturns(r)
    \/ ModelFails

SpecPipeline == Init /\ [][NextPipeline]_vars

-----------------------------------------------------------------------------
(* Claims about the document pipeline *)

TextsOf(rows) == [i \in 1..Len(rows) |-> rows[i].text]

Ended(name) == pc = "idle" /\ op.name = name

\* C1: batch_process never raises and returns one entry per input, in input
\* order, each carrying its input's path; the entry is an error outcome (path
\* and error description only) exactly when processing that input raised, and
\* a document result without an error field otherwise.
C1_BatchOutcome ==
    Ended("batch_process") =>
        /\ ret.kind = "value"
        /\ Len(ret.value) = Len(op.image_paths)
        /\ \A i \in 1..Len(op.image_paths) :
              LET e == ret.value[i] IN
              /\ e.image_path = op.image_paths[i]
              /\ ("error" \in DOMAIN e) <=> (i \in failed)
              /\ (i \in failed) => DOMAIN e = {"image_path", "error"}
              /\ (i \notin failed) =>
                    /\ {"image_path", "extracted_text", "confidence", "word_count"}
                           \subseteq DOMAIN e
                    /\ DOMAIN e \subseteq {"image_path", "extracted_text", "confidence",
                                           "word_count", "analysis"}

\* three inputs, of which only the second failed, and it failed to decode
C1_Witness ==
    /\ Ended("batch_process")
    /\ Len(op.image_paths) = 3
    /\ failed = {2}
    /\ ret.kind = "value"
    /\ Len(ret.value) = 3
    /\ ret.value[2].error = ImageLoadError.msg
    /\ "analysis" \in DOMAIN ret.value[1]

PositiveRows(data) == SelectSeq(data, LAMBDA t : t.conf > 0)

\* C3 as stated: word count, mean and text are those of the rows whose score is
\* strictly greater than 0.
C3_PositiveScores ==
    (Ended("extract_text_with_confidence") /\ ret.kind = "value") =>
        LET r == ret.value
            pos == PositiveRows(r.details)
        IN  /\ r.word_count = Len(pos)
            /\ r.confidence.num * Len(pos) * ConfScale
                   = r.confidence.den * Sum([i \in 1..Len(pos) |-> pos[i].conf])
            /\ (pos = <<>>) => r.confidence.num = 0
            /\ r.text = Strip(Join(TextsOf(pos), <<" ">>))

\* the rows whose score is at least 1
WholeRows(data) == SelectSeq(data, LAMBDA t : t.conf >= ConfScale)

\* C3 as amended: word count, mean and text are those of the rows whose score
\* is at least 1, the mean being taken over the scores rounded down to whole
\* numbers; with no such row the result is confidence 0, word count 0, text "".
C3_WholeScores ==
    (Ended("extract_text_with_confidence") /\ ret.kind = "value") =>
        LET r == ret.value
            whole == WholeRows(r.details)
        IN  /\ r.word_count = Len(whole)
            /\ r.confidence.num * Len(whole)
                   = r.confidence.den
                       * Sum([i \in 1..Len(whole) |-> whole[i].conf \div ConfScale])
            /\ (whole = <<>>) =>
                   r.confidence.num = 0 /\ r.word_count = 0 /\ r.text = <<>>
            /\ r.text = Strip(Join(TextsOf(whole), <<" ">>))

\* a result over a score between 0 and 1, a score of 0 or less, and a fractional
\* score above 1
C3_Witness ==
    /\ Ended("extract_text_with_confidence")
    /\ ret.kind = "value"
    /\ ret.value.word_count = 1
    /\ \E i \in 1..Len(ret.value.details) :
           ret.value.details[i].conf \in 1..(ConfScale - 1)
    /\ \E i \in 1..Len(ret.value.details) : ret.value.details[i].conf <= 0
    /\ \E i \in 1..Len(ret.value.details) :
           /\ ret.value.details[i].conf > ConfScale
           /\ ret.value.details[i].conf % ConfScale # 0

\* C4: process_document calls the model runtime only after the OCR extraction
\* has returned, and only when analyze is set and the extracted text is not
\* empty; its result has an analysis field exactly in that case, and otherwise
\* it is returned with no model call made and no error raised.
C4_AnalysisOnlyWithText ==
    (op.name = "process_document") =>
        /\ (pc \in {"load", "ocr"}) => calls = 0 /\ prompt = None
        /\ (pc = "model") =>
              /\ op.analyze
              /\ ocr # None
              /\ ocr.text # <<>>
              /\ calls = 1
        /\ (pc = "idle" /\ ret.kind = "value") =>
              LET wanted == op.analyze /\ ret.value.extracted_text # <<>> IN
              /\ ("analysis" \in DOMAIN ret.value) <=> wanted
              /\ calls = IF wanted THEN 1 ELSE 0
              /\ "error" \notin DOMAIN ret.value
        /\ (pc = "idle" /\ ret.kind = "raise") =>
              /\ (ret.error = ModelUnavailable) <=> (calls = 1)
              /\ (calls = 1) => op.analyze
              /\ calls <= 1

\* analysis was asked for, the page held a recognised token, its text was empty
C4_Witness ==
    /\ Ended("process_document")
    /\ op.analyze
    /\ ret.kind = "value"
    /\ ret.value.extracted_text = <<>>
    /\ ret.value.word_count = 1
    /\ "analysis" \notin DOMAIN ret.value
    /\ calls = 0

\* the text an analysis prompt in flight is about
AnalysedText == IF op.name = "analyze_extracted_text" THEN op.text ELSE ocr.text

\* C5: for an analysis kind that is none of the four known ones, the prompt sent
\* is the summary template rendered with the text, no error is raised for the
\* kind, and the value returned is the runtime's answer stripped, as for "summary".
C5_UnknownKindIsSummary ==
    /\ (pc = "model" /\ op.name \in {"analyze_extracted_text", "process_document", "batch_process"}
           /\ op.analysis_type \notin KnownKinds) =>
          prompt = <<AnalysisTemplates.summary[1], [val |-> AnalysedText],
                     AnalysisTemplates.summary[3]>>
    /\ (Ended("analyze_extracted_text") /\ op.analysis_type \notin KnownKinds) =>
          /\ prompt = <<AnalysisTemplates.summary[1], [val |-> op.text],
                        AnalysisTemplates.summary[3]>>
          /\ ret.kind = "value" => ret.value = Strip(reply)
          /\ ret.kind = "raise" => ret.error = ModelUnavailable
          /\ calls = 1

\* an unknown kind was analysed and the answer came back with blanks around it
C5_Witness ==
    /\ Ended("analyze_extracted_text")
    /\ op.analysis_type = "unknown_kind"
    /\ op.text # <<>>
    /\ ret = Value(<<"b">>)
    /\ reply # <<"b">>

-----------------------------------------------------------------------------
(* OCRAgent.extract_structured_data *)

\* lines 318-329
StructuredTemplate ==
    <<Lit("Extract the following fields from the text: "), Slot("fields"),
      Lit("\n\nText: "), Slot("text"),
      Lit("\n\nRespond in the format:\nField1: value1\nField2: value2\n\nExtracted Data:")>>

EmptyDict == [k \in {} |-> <<>>]

PutIfAbsent(d, k, v) ==
    [x \in DOMAIN d \cup {k} |-> IF x \in DOMAIN d THEN d[x] ELSE v]

\* result[k] = v
Put(d, k, v) == [x \in DOMAIN d \cup {k} |-> IF x = k THEN v ELSE d[x]]

\* lines 337-339: one line of the response
ParseLine(line, result) ==
    LET i == Find(line, ":") IN
    IF i # 0
    THEN Put(result, Strip(SubSeq(line, 1, i - 1)), Strip(SubSeq(line, i + 1, Len(line))))
    ELSE result

RECURSIVE ParseLines(_, _)
ParseLines(lines, result) ==
    IF lines = <<>> THEN result
    ELSE ParseLines(Tail(lines), ParseLine(Head(lines), result))

\* lines 335-341
ParseFields(response) == ParseLines(Split(Strip(response), "\n"), EmptyDict)

\* raw answers of the model runtime explored for the extraction prompt
ResponseChars == {"a", ":", " ", "\n"}
Responses == SeqsUpTo(ResponseChars, MaxResponseLen)

FieldLists == { << <<"a">> >>, << <<"a">>, <<"a", "a">> >> }

\* extract_structured_data(text, fields) is called: lines 317-332, up to the
\* call of the model runtime
StartStructured(text, fields) ==
    /\ Begin([name |-> "extract_structured_data", text |-> text, fields |-> fields])
    /\ pc' = "model"
    /\ ret' = NoRet
    /\ prompt' = RenderPrompt(StructuredTemplate,
                              [text |-> text, fields |-> Join(fields, <<",", " ">>)])
    /\ calls' = 1
    /\ idx' = 0
    /\ UNCHANGED memory

\* lines 332-341: the model runtime answers r, which is parsed and returned
StructuredReturns(r) ==
    /\ pc = "model"
    /\ op.name = "extract_structured_data"
    /\ reply' = r
    /\ pc' = "idle"
    /\ ret' = Value(ParseFields(r))
    /\ UNCHANGED <<world, op, prompt, calls, memory, mem0, prevOp, idx, results, img, ocr, failed>>

NextStructured ==
    \/ pc = "idle" /\ \E fields \in FieldLists : StartStructured(<<"a">>, fields)
    \/ pc = "model" /\ \E r \in Responses : StructuredReturns(r)
    \/ ModelFails

SpecStructured == Init /\ [][NextStructured]_vars

-----------------------------------------------------------------------------
(* AIAgent *)

\* lines 89-99
ChatTemplate ==
    <<Lit("You are a helpful AI assistant. Use the conversation history to provide context-aware responses.\n\nChat History:\n"),
      Slot("chat_history"), Lit("\n\nCurrent Message: "), Slot("message"),
      Lit("\n\nResponse:")>>

Human(m) == [role |-> "human", content |-> m]
AI(m) == [role |-> "ai", content |-> m]

MemoryWithUserTurn(mem, message) == Append(mem, Human(message))

\* lines 101-108, before the model call: the chain reads the memory (it is the
\* chat_history of the prompt) and writes nothing to it
MemoryAtDispatch(mem, message) == mem

SaveContextWindow(mem, message, text) ==
    (IF Len(mem) >= 2 THEN SubSeq(mem, 3, Len(mem)) ELSE mem)
        \o <<Human(message), AI(text)>>

SaveContextStripped(mem, message, text) == mem \o <<Human(message), AI(Strip(text))>>

SaveContextAnswerOnly(mem, message, text) == Append(mem, AI(text))

SaveContextReplyFirst(mem, message, text) == mem \o <<AI(text), Human(message)>>

\* line 108, after the model call: the chain saves the input and the text the
\* runtime answered to the memory it was given at line 104
SaveContext(mem, message, text) == mem \o <<Human(message), AI(text)>>

ClearKeepsLast(mem) == IF mem = <<>> THEN <<>> ELSE <<mem[Len(mem)]>>

\* line 224: self.memory.clear()
Clear(mem) == <<>>

ChatMessages == {<<"h", "i">>, <<"a">>}
ChatReplies == {<<"a">>, <<" ", "b", "\n">>}

\* chat(message) is called: lines 89-108, up to the call of the model runtime
StartChat(message) ==
    /\ Len(memory) < MaxTurns
    /\ Begin([name |-> "chat", message |-> message])
    /\ pc' = "model"
    /\ ret' = NoRet
    /\ prompt' = RenderPrompt(ChatTemplate, [message |-> message, chat_history |-> memory])
    /\ calls' = 1
    /\ idx' = 0
    /\ memory' = MemoryAtDispatch(memory, message)

\* lines 108-109: the model runtime answers r
ChatReturns(r) ==
    /\ pc = "model"
    /\ op.name = "chat"
    /\ reply' = r
    /\ memory' = SaveContext(memory, op.message, r)
    /\ pc' = "idle"
    /\ ret' = Value(Strip(r))
    /\ UNCHANGED <<world, op, prompt, calls, mem0, prevOp, idx, results, img, ocr, failed>>

\* clear_memory() is called and returns
ClearMemory ==
    /\ Begin([name |-> "clear_memory"])
    /\ memory' = Clear(memory)
    /\ pc' = "idle"
    /\ ret' = Value(None)
    /\ prompt' = None
    /\ calls' = 0
    /\ idx' = 0

\* str(n) of a natural number, as PromptTemplate.format writes a number
DecimalDigits == <<"0", "1", "2", "3", "4", "5", "6", "7", "8", "9">>

RECURSIVE Str(_)
Str(n) ==
    IF n < 10 THEN <<DecimalDigits[n + 1]>>
    ELSE Str(n \div 10) \o <<DecimalDigits[(n % 10) + 1]>>

\* lines 121-135
ReasonTemplate ==
    <<Lit("You are an AI agent capable of step-by-step reasoning. \nBreak down the following task and provide a detailed solution:\n\nTask: "),
      Slot("task"),
      Lit("\n\nThink through this step by step:\n1. First, analyze the task\n2. Break it into sub-problems\n3. Solve each sub-problem\n4. Combine the solutions\n\nResponse:")>>

\* lines 152-159
SummarizeTemplate ==
    <<Lit("Summarize the following text in approximately "), Slot("max_length"),
      Lit(" words or less:\n\nText: "), Slot("text"), Lit("\n\nSummary:")>>

\* lines 175-183
SentimentTemplate ==
    <<Lit("Analyze the sentiment of the following text. \nRespond with: POSITIVE, NEGATIVE, or NEUTRAL, followed by a brief explanation.\n\nText: "),
      Slot("text"), Lit("\n\nSentiment:")>>

\* lines 209-216
ExtractInfoTemplate ==
    <<Lit("Extract all "), Slot("info_type"), Lit(" from the following text:\n\nText: "),
      Slot("text"), Lit("\n\nExtracted "), Slot("info_type"), Lit(":")>>

HasMemoryAlways(name) == TRUE

\* whether the chain of operation name is built with memory=self.memory: the
\* chain of chat is (line 104), the chains of lines 137, 161, 185 and 218 are not
HasMemory(name) == name = "chat"

\* what the chain of operation name leaves in the memory after the runtime
\* answered text to the input
MemoryAfterCall(name, mem, input, text) ==
    IF HasMemory(name) THEN SaveContext(mem, input, text) ELSE mem

AgentTexts == {<<"a">>}
Tasks == {<<"a">>, <<"b">>}
MaxLengths == {200, 50}
InfoTypes == {<<"a">>, <<"b">>}
AgentReplies == {<<"a">>, <<" ", "b", "\n">>, <<"\n", "a", " ", "b", " ">>}

\* an operation of AIAgent other than chat is called: its prompt is rendered
\* and the model runtime is called
StartStateless(o, template, params) ==
    /\ Begin(o)
    /\ pc' = "model"
    /\ ret' = NoRet
    /\ prompt' = RenderPrompt(template, params)
    /\ calls' = 1
    /\ idx' = 0
    /\ UNCHANGED memory

\* reason(task) is called: lines 121-138
StartReason(task) ==
    StartStateless([name |-> "reason", task |-> task], ReasonTemplate, [task |-> task])

\* summarize(text, max_length) is called: lines 152-162
StartSummarize(text, max_length) ==
    StartStateless([name |-> "summarize", text |-> text, max_length |-> max_length],
                   SummarizeTemplate, [text |-> text, max_length |-> Str(max_length)])

\* analyze_sentiment(text) is called: lines 175-186
StartAnalyzeSentiment(text) ==
    StartStateless([name |-> "analyze_sentiment", text |-> text],
                   SentimentTemplate, [text |-> text])

\* extract_info(text, info_type) is called: lines 209-219
StartExtractInfo(text, info_type) ==
    StartStateless([name |-> "extract_info", text |-> text, info_type |-> info_type],
                   ExtractInfoTemplate, [text |-> text, info_type |-> info_type])

\* the first argument of the operation in progress
FirstInput == IF op.name = "reason" THEN op.task ELSE op.text

\* lines 138-139, 162-163, 219-220: the model runtime answers r
AgentTextReturns(r) ==
    /\ pc = "model"
    /\ op.name \in {"reason", "summarize", "extract_info"}
    /\ reply' = r
    /\ memory' = MemoryAfterCall(op.name, memory, FirstInput, r)
    /\ pc' = "idle"
    /\ ret' = Value(Strip(r))
    /\ UNCHANGED <<world, op, prompt, calls, mem0, prevOp, idx, results, img, ocr, failed>>

\* str.upper() on the letters of the alphabet
LowerLetters == <<"a", "b", "c", "d", "e", "f", "g", "h", "i", "j", "k", "l", "m", "n", "o", "p", "q", "r", "s", "t", "u", "v", "w", "x", "y", "z">>
UpperLetters == <<"A", "B", "C", "D", "E", "F", "G", "H", "I", "J", "K", "L", "M", "N", "O", "P", "Q", "R", "S", "T", "U", "V", "W", "X", "Y", "Z">>

UpperChar(c) ==
    IF \E i \in 1..Len(LowerLetters) : LowerLetters[i] = c
    THEN UpperLetters[CHOOSE i \in 1..Len(LowerLetters) : LowerLetters[i] = c]
    ELSE c

UpperKeepsCase(s) == s

Upper(s) == [i \in 1..Len(s) |-> UpperChar(s[i])]

explanationAllLines(lines) ==
    IF Len(lines) > 1 THEN Strip(Join(lines, <<" ">>)) ELSE <<>>

\* line 190
explanation(lines) ==
    IF Len(lines) > 1 THEN Strip(Join(Tail(lines), <<" ">>)) ELSE <<>>

\* lines 188-196
SentimentResult(response) ==
    LET lines == Split(Strip(response), "\n") IN
    [sentiment    |-> Upper(Strip(lines[1])),
     explanation  |-> explanation(lines),
     raw_response |-> Strip(response)]

\* raw answers of the model runtime explored for the sentiment prompt
SentimentChars == {"a", " ", "\n"}
SentimentReplies ==
    SeqsUpTo(SentimentChars, MaxResponseLen)
    \cup {<<"P", "o", "s", "i", "t", "i", "v", "e">>,
          <<"N", "E", "U", "T", "R", "A", "L", "\n", "o", "k">>,
          <<" ", "n", "e", "g", "a", "t", "i", "v", "e", " ", "\n", "\n", "n", "o">>,
          <<"M", "i", "x", "e", "d", "\n", "s", "o", " ", "s", "o">>}

\* lines 186-196: the model runtime answers r, which is split into the label
\* and the explanation
SentimentReturns(r) ==
    /\ pc = "model"
    /\ op.name = "analyze_sentiment"
    /\ reply' = r
    /\ memory' = MemoryAfterCall(op.name, memory, op.text, r)
    /\ pc' = "idle"
    /\ ret' = Value(SentimentResult(r))
    /\ UNCHANGED <<world, op, prompt, calls, mem0, prevOp, idx, results, img, ocr, failed>>

NextSentiment ==
    \/ pc = "idle" /\ \E text \in AgentTexts : StartAnalyzeSentiment(text)
    \/ pc = "model" /\ \E r \in SentimentReplies : SentimentReturns(r)
    \/ ModelFails

SpecSentiment == Init /\ [][NextSentiment]_vars

NextAgent ==
    \/ \E m \in ChatMessages : StartChat(m)
    \/ \E r \in ChatReplies : ChatReturns(r)
    \/ ModelFails
    \/ ClearMemory
    \/ \E task \in Tasks : StartReason(task)
    \/ \E text \in AgentTexts, n \in MaxLengths : StartSummarize(text, n)
    \/ \E text \in AgentTexts : StartAnalyzeSentiment(text)
    \/ \E text \in AgentTexts, t \in InfoTypes : StartExtractInfo(text, t)
    \/ pc = "model" /\ \E r \in AgentReplies : AgentTextReturns(r)
    \/ pc = "model" /\ \E r \in AgentReplies : SentimentReturns(r)

SpecAgent == Init /\ [][NextAgent]_vars

-----------------------------------------------------------------------------
(* Claims about extract_structured_data *)

HasColon(line) == \E i \in 1..Len(line) : line[i] = ":"

\* the position of the first colon of a line that has one
FirstColon(line) ==
    CHOOSE i \in 1..Len(line) : line[i] = ":" /\ \A j \in 1..(i - 1) : line[j] # ":"

KeyOf(line) == Strip(SubSeq(line, 1, FirstColon(line) - 1))
ValueOf(line) == Strip(SubSeq(line, FirstColon(line) + 1, Len(line)))

\* C6: the mapping returned is the one read off the lines of the response: its
\* keys are the trimmed texts before the first colon of the lines that have a
\* colon, and each key maps to the trimmed text after the first colon of the
\* last line that has this key; there is no other entry.
C6_ParsedMapping ==
    (Ended("extract_structured_data") /\ ret.kind = "value") =>
        LET lines == Split(reply, "\n")
            with == {i \in 1..Len(lines) : HasColon(lines[i])}
            d == ret.value
        IN  /\ DOMAIN d = {KeyOf(lines[i]) : i \in with}
            /\ \A k \in DOMAIN d :
                  \E i \in with :
                      /\ KeyOf(lines[i]) = k
                      /\ \A j \in with : KeyOf(lines[j]) = k => j <= i
                      /\ d[k] = ValueOf(lines[i])

\* a key on two lines with different values, and the last one kept
C6_Witness ==
    /\ Ended("extract_structured_data")
    /\ ret.kind = "value"
    /\ reply = <<"a", ":", "a", "\n", "a", ":">>
    /\ ret.value[<<"a">>] = <<>>

\* C7 as stated: every key of the mapping returned is a requested field name.
C7_KeysAreRequested ==
    (Ended("extract_structured_data") /\ ret.kind = "value") =>
        DOMAIN ret.value \subseteq {op.fields[i] : i \in 1..Len(op.fields)}

-----------------------------------------------------------------------------
(* Claims about the conversation log *)

\* C8: a successful chat(m) that follows clear_memory leaves the log holding
\* exactly the user turn m and the assistant turn with the runtime's answer, and
\* the chat history it sent to the runtime was empty.
C8_FreshAfterClear ==
    (op.name = "chat" /\ prevOp.name = "clear_memory") =>
        /\ prompt[2] = [val |-> <<>>]
        /\ (pc = "idle" /\ ret.kind = "value") =>
               memory = <<Human(op.message), AI(reply)>>

\* the log held turns before the clear
C8_Witness ==
    /\ Ended("chat")
    /\ prevOp.name = "clear_memory"
    /\ Len(prevOp.mem0) >= 2
    /\ ret.kind = "value"
    /\ Len(memory) = 2

\* C9 as stated: while the model call of chat(message) is in progress, the last
\* entry of the log is the user turn for message.
C9_UserTurnBeforeCall ==
    (op.name = "chat" /\ pc = "model") =>
        /\ memory # <<>>
        /\ memory[Len(memory)] = Human(op.message)

\* C9 as amended: while the model call of chat(message) is in progress the log
\* is as it was before the call and is the chat history of the prompt, beside
\* message; when the call has succeeded the log is the log before the call, then
\* the user turn for message, then the assistant turn with the answer, and the
\* stripped answer is returned.
C9_TurnsAfterCall ==
    (op.name = "chat") =>
        /\ prompt = <<ChatTemplate[1], [val |-> mem0], ChatTemplate[3],
                      [val |-> op.message], ChatTemplate[5]>>
        /\ (pc = "model") => memory = mem0
        /\ (pc = "idle" /\ ret.kind = "value") =>
              /\ memory = mem0 \o <<Human(op.message), AI(reply)>>
              /\ ret.value = Strip(reply)

\* a second chat has succeeded
C9_Witness ==
    /\ Ended("chat")
    /\ ret.kind = "value"
    /\ Len(mem0) = 2
    /\ Len(memory) = 4
    /\ memory[3].role = "human"

\* C10 as stated: after a failed chat(message) the log is the log before the
\* call followed by the user turn for message.
C10_OrphanedUserTurn ==
    (Ended("chat") /\ ret.kind = "raise") =>
        memory = Append(mem0, Human(op.message))

\* C10 as amended: after a failed chat(message) the error has reached the caller
\* and the log is the log before the call: neither a user turn nor an assistant
\* turn was added.
C10_FailedChatLeavesLog ==
    (Ended("chat") /\ ret.kind = "raise") =>
        /\ ret.error = ModelUnavailable
        /\ memory = mem0
        /\ calls = 1

\* a chat failed on a log that held an earlier exchange
C10_Witness ==
    /\ Ended("chat")
    /\ ret.kind = "raise"
    /\ Len(mem0) = 2
    /\ memory = mem0

-----------------------------------------------------------------------------
(* Claims about the operations of AIAgent *)

StatelessOps == {"reason", "summarize", "analyze_sentiment", "extract_info"}

\* the texts the caller passed to the operation in progress
ArgumentTexts ==
    CASE op.name = "reason" -> {op.task}
      [] op.name = "summarize" -> {op.text, Str(op.max_length)}
      [] op.name = "extract_info" -> {op.text, op.info_type}
      [] OTHER -> {op.text}

\* C11: reason, summarize, analyze_sentiment and extract_info leave the memory
\* as it was when they were called, while the call is in progress and after it
\* returned or raised; every value substituted into their prompt is one of
\* their arguments, none is the conversation log; so the log differs from the
\* one at the start of an operation only in chat and clear_memory.
C11_LogUntouched ==
    /\ op.name \in StatelessOps =>
          /\ memory = mem0
          /\ \A i \in 1..Len(prompt) :
                "val" \in DOMAIN prompt[i] => prompt[i].val \in ArgumentTexts
    /\ memory # mem0 => op.name \in {"chat", "clear_memory"}

C11_Witness ==
    /\ Ended("extract_info")
    /\ ret = Raised(ModelUnavailable)
    /\ Len(memory) = 2
    /\ prevOp.name = "summarize"

POSITIVE == <<"P", "O", "S", "I", "T", "I", "V", "E">>
NEGATIVE == <<"N", "E", "G", "A", "T", "I", "V", "E">>
NEUTRAL == <<"N", "E", "U", "T", "R", "A", "L">>
SentimentLabels == {POSITIVE, NEGATIVE, NEUTRAL}

SameIgnoringCase(a, b) ==
    /\ Len(a) = Len(b)
    /\ \A i \in 1..Len(a) : UpperChar(a[i]) = UpperChar(b[i])

\* the text before the first newline of s, all of s when it has none
FirstLineOf(s) ==
    IF \E i \in 1..Len(s) : s[i] = "\n"
    THEN SubSeq(s, 1, (CHOOSE i \in 1..Len(s) :
                          s[i] = "\n" /\ \A j \in 1..(i - 1) : s[j] # "\n") - 1)
    ELSE s

\* the text after the first newline of s, nothing when it has none
AfterFirstLine(s) ==
    IF \E i \in 1..Len(s) : s[i] = "\n"
    THEN SubSeq(s, (CHOOSE i \in 1..Len(s) :
                       s[i] = "\n" /\ \A j \in 1..(i - 1) : s[j] # "\n") + 1, Len(s))
    ELSE <<>>

SentimentEnded == Ended("analyze_sentiment") /\ ret.kind = "value"

\* C12 as stated: the sentiment is the label the first line of the response
\* matches ignoring case, and the first line itself, in its own letter case,
\* when it matches no label.
C12_VerbatimFallback ==
    SentimentEnded =>
        LET first == FirstLineOf(Strip(reply)) IN
        IF \E l \in SentimentLabels : SameIgnoringCase(first, l)
        THEN ret.value.sentiment \in SentimentLabels
             /\ SameIgnoringCase(first, ret.value.sentiment)
        ELSE ret.value.sentiment = first

\* C12: the sentiment is the first line of the stripped response, trimmed and
\* with every letter in upper case: it is POSITIVE, NEGATIVE or NEUTRAL when
\* the trimmed first line is one of them ignoring case, and the upper-cased
\* first line otherwise.
C12_UpperCasedFirstLine ==
    SentimentEnded =>
        LET first == Strip(FirstLineOf(Strip(reply)))
            s == ret.value.sentiment
        IN /\ Len(s) = Len(first)
           /\ \A i \in 1..Len(s) : s[i] = UpperChar(first[i])
           /\ (\E l \in SentimentLabels : SameIgnoringCase(first, l))
                 => s \in SentimentLabels

C12_Witness ==
    /\ SentimentEnded
    /\ reply = <<"M", "i", "x", "e", "d", "\n", "s", "o", " ", "s", "o">>
    /\ ret.value.sentiment = <<"M", "I", "X", "E", "D">>

\* the lines of s joined by one space: every newline becomes a space
NewlinesToSpaces(s) == [i \in 1..Len(s) |-> IF s[i] = "\n" THEN " " ELSE s[i]]

\* C13 as stated: raw_response is the stripped response and the explanation is
\* its lines after the first joined by single spaces, empty when there is one
\* line.
C13_JoinedRest ==
    SentimentEnded =>
        /\ ret.value.raw_response = Strip(reply)
        /\ ret.value.explanation = NewlinesToSpaces(AfterFirstLine(Strip(reply)))

\* C13: raw_response is the stripped response; the explanation is its lines
\* after the first joined by single spaces and then trimmed at both ends, and
\* it is empty, without an error, when the response has one line or none.
C13_TrimmedJoinedRest ==
    SentimentEnded =>
        /\ ret.value.raw_response = Strip(reply)
        /\ ret.value.explanation = Strip(NewlinesToSpaces(AfterFirstLine(Strip(reply))))
        /\ (\A i \in 1..Len(Strip(reply)) : Strip(reply)[i] # "\n")
              => ret.value.explanation = <<>>

C13_Witness ==
    /\ SentimentEnded
    /\ reply = <<"a", "\n", "\n", "a", "\n", "a">>
    /\ ret.value.explanation = <<"a", " ", "a">>

-----------------------------------------------------------------------------
(* Prompt rendering: PromptTemplate and LLMChain.predict *)

IsSlot(piece) == "slot" \in DOMAIN piece

\* prompt.input_variables: the names between braces in the template
input_variables(template) ==
    {template[i].slot : i \in {j \in 1..Len(template) : IsSlot(template[j])}}

\* the input keys the chain finds missing before it renders the prompt
MissingKeys(template, params) == input_variables(template) \ DOMAIN params

\* the error of chain.predict when input keys are missing
MissingInputKeys(keys) ==
    [type |-> "ValueError", msg |-> "Missing some input keys", keys |-> keys]

DispatchTemplates == {SummarizeTemplate, ExtractInfoTemplate}
DispatchKeys == {"text", "max_length", "info_type"}
DispatchValues == {<<"a">>, <<"b">>}
ParameterSets == UNION {[S -> DispatchValues] : S \in SUBSET DispatchKeys}

\* chain.predict(**params) is called on the chain of a template: the chain
\* checks the input keys, renders the prompt and calls the model runtime
StartPredict(template, params) ==
    /\ Begin([name |-> "predict", template |-> template, params |-> params])
    /\ idx' = 0
    /\ UNCHANGED memory
    /\ IF MissingKeys(template, params) # {}
       THEN /\ pc' = "idle"
            /\ ret' = Raised(MissingInputKeys(MissingKeys(template, params)))
            /\ prompt' = None
            /\ calls' = 0
       ELSE /\ pc' = "model"
            /\ ret' = NoRet
            /\ prompt' = RenderPrompt(template, params)
            /\ calls' = 1

\* chain.predict returns the text the model runtime answered
PredictReturns(r) ==
    /\ pc = "model"
    /\ op.name = "predict"
    /\ reply' = r
    /\ pc' = "idle"
    /\ ret' = Value(r)
    /\ UNCHANGED <<world, op, prompt, calls, memory, mem0, prevOp, idx, results, img, ocr, failed>>

NextDispatch ==
    \/ pc = "idle" /\ \E t \in DispatchTemplates, params \in ParameterSets :
           StartPredict(t, params)
    \/ pc = "model" /\ \E r \in AgentReplies : PredictReturns(r)
    \/ pc = "idle" /\ \E text \in AgentTexts, n \in MaxLengths : StartSummarize(text, n)
    \/ pc = "idle" /\ \E text \in AgentTexts, t \in InfoTypes : StartExtractInfo(text, t)
    \/ pc = "idle" /\ \E fields \in FieldLists : StartStructured(<<"a">>, fields)
    \/ pc = "model" /\ \E r \in AgentReplies : AgentTextReturns(r)
    \/ pc = "model" /\ \E r \in AgentReplies : StructuredReturns(r)
    \/ ModelFails

SpecDispatch == Init /\ [][NextDispatch]_vars

\* the template and the values of the operation in progress
TemplateOfOp ==
    CASE op.name = "predict" -> op.template
      [] op.name = "summarize" -> SummarizeTemplate
      [] op.name = "extract_info" -> ExtractInfoTemplate
      [] op.name = "extract_structured_data" -> StructuredTemplate

ParamsOfOp ==
    CASE op.name = "predict" -> op.params
      [] op.name = "summarize" -> [text |-> op.text, max_length |-> Str(op.max_length)]
      [] op.name = "extract_info" -> [text |-> op.text, info_type |-> op.info_type]
      [] op.name = "extract_structured_data" ->
            [text |-> op.text, fields |-> Join(op.fields, <<",", " ">>)]

-----------------------------------------------------------------------------
(* The operations of both agents that call the model runtime *)

\* lines 48-52 of ai_agent.py and 57-62 of ocr_agent.py: Ollama(...) is given
\* model, base_url and temperature, and no timeout, so a request waits for its
\* answer without limit
RequestTimeout == None

\* the model runtime never answers the call in progress: the caller stays
\* blocked in chain.predict
RuntimeHangs ==
    /\ pc = "model"
    /\ RequestTimeout = None
    /\ pc' = "hung"
    /\ UNCHANGED <<world, op, ret, prompt, reply, calls, memory, mem0, prevOp, idx, results,
                   img, ocr, failed>>

OnePath == {"a.png"}
TwoDocuments == {<<"a.png", "a.png">>}

NextOperations ==
    \/ pc = "idle" /\ \E m \in AgentTexts : StartChat(m)
    \/ pc = "model" /\ \E r \in ChatReplies : ChatReturns(r)
    \/ ClearMemory
    \/ pc = "idle" /\ \E task \in AgentTexts : StartReason(task)
    \/ pc = "idle" /\ \E text \in AgentTexts, n \in MaxLengths : StartSummarize(text, n)
    \/ pc = "idle" /\ \E text \in AgentTexts : StartAnalyzeSentiment(text)
    \/ pc = "idle" /\ \E text \in AgentTexts, t \in AgentTexts : StartExtractInfo(text, t)
    \/ pc = "model" /\ \E r \in AgentReplies : AgentTextReturns(r)
    \/ pc = "model" /\ \E r \in AgentReplies : SentimentReturns(r)
    \/ pc = "idle" /\ \E text \in AgentTexts, k \in BatchKinds : StartAnalyze(text, k)
    \/ pc = "idle" /\ \E path \in OnePath, analyze \in BOOLEAN, k \in BatchKinds :
           StartProcessDocument(path, analyze, k)
    \/ pc = "idle" /\ \E paths \in TwoDocuments, k \in BatchKinds :
           StartBatchProcess(paths, TRUE, k)
    \/ pc = "idle" /\ \E fields \in FieldLists : StartStructured(<<"a">>, fields)
    \/ \E decoded \in BOOLEAN : LoadImage(decoded)
    \/ OcrEngineFails
    \/ pc = "ocr" /\ \E data \in PageAnswers : PageOcrReturns(data)
    \/ pc = "model" /\ \E r \in AgentReplies : AnalysisReturns(r)
    \/ pc = "model" /\ \E r \in AgentReplies : StructuredReturns(r)
    \/ ModelFails
    \/ RuntimeHangs

SpecOperations == Init /\ [][NextOperations]_vars

-----------------------------------------------------------------------------
(* Claims about the calls of the model runtime *)

TextOps == {"chat", "reason", "summarize", "extract_info", "analyze_extracted_text"}

\* t is s without the whitespace s begins and ends with
IsTrimmed(t, s) ==
    \E i \in 0..Len(s) :
        /\ i + Len(t) <= Len(s)
        /\ t = SubSeq(s, i + 1, i + Len(t))
        /\ \A k \in 1..i : IsSpace(s[k])
        /\ \A k \in (i + Len(t) + 1)..Len(s) : IsSpace(s[k])
        /\ t # <<>> => ~IsSpace(t[1]) /\ ~IsSpace(t[Len(t)])

\* C15: chat, reason, summarize, extract_info and analyze_extracted_text return
\* the text the model runtime answered without the whitespace it begins and
\* ends with, and with everything between unchanged.
C15_ReturnsTrimmedReply ==
    (/\ pc = "idle"
     /\ op.name \in TextOps
     /\ ret.kind = "value") => IsTrimmed(ret.value, reply)

C15_Witness ==
    /\ Ended("analyze_extracted_text")
    /\ ret.kind = "value"
    /\ reply = <<"\n", "a", " ", "b", " ">>
    /\ ret.value = <<"a", " ", "b">>
    /\ prevOp.name = "chat"

\* C16 as stated: no invocation of an operation issues more than one call of
\* the model runtime.
C16_OneCallPerInvocation == calls <= 1

\* C16: an operation other than batch_process issues at most one call of the
\* model runtime per invocation, and batch_process at most one per document it
\* has started; when the call of such an operation fails, no further call is
\* made and the operation raises the failure of the call as it is, while
\* batch_process does not raise.
C16_NoRetry ==
    /\ op.name # "batch_process" => calls <= 1
    /\ op.name = "batch_process" =>
          /\ calls <= idx
          /\ calls <= Len(op.image_paths)
          /\ ret.kind # "raise"
    /\ (/\ pc = "idle"
        /\ op.name \notin {"none", "batch_process"}
        /\ calls = 1
        /\ failed # {}) => ret = Raised(ModelUnavailable)

C16_Witness ==
    /\ Ended("batch_process")
    /\ calls = 2
    /\ failed = {1}
    /\ Len(ret.value) = 2
    /\ "analysis" \in DOMAIN ret.value[2]

\* C17 as stated: no operation stays blocked in a call of the model runtime:
\* whatever the runtime does, an operation in progress has a step to take,
\* which for a call that is never answered is the expiry of its timeout.
C17_NeverBlocked == pc # "idle" => ENABLED NextOperations

-----------------------------------------------------------------------------
(* Claims about preprocess_image *)

\* C18: preprocess_image raises the image-load error whenever the image read
\* from the path is None, with enhance and without; it then returns no image,
\* so no grayscale, denoise or threshold step has been applied to anything;
\* when the image was decoded it returns the image after the steps enhance asks
\* for.
C18_UndecodableImageRaises ==
    Ended("preprocess_image") =>
        IF img = PyNone
        THEN ret = Raised(ImageLoadError)
        ELSE /\ ret.kind = "value"
             /\ ret.value.steps = IF op.enhance THEN <<"gray", "denoise", "threshold">>
                                                ELSE <<"gray">>

C18_Witness ==
    /\ Ended("preprocess_image")
    /\ ~op.enhance
    /\ img = PyNone
    /\ ret = Raised(ImageLoadError)
    /\ prevOp.name = "extract_text_with_confidence"

-----------------------------------------------------------------------------
(* utils/config.py: the probes of the Ollama server *)

MaxModels == 2

StatusOkAnySuccess(status) == status >= 200 /\ status < 300

\* lines 48 and 66: response.status_code == 200
StatusOk(status) == status = 200

Statuses == {200, 204, 404, 500}

\* what requests.get raises when no response arrives
RequestErrors == {"ConnectionError", "Timeout"}

\* the entries of the "models" list of a response: an entry with a "name", and
\* one without
ModelEntries == {[name |-> "llama2"], [name |-> "mistral"], [digest |-> "0"]}

\* the bodies of a response: not JSON, JSON that is not an object, an object
\* without "models", an object whose "models" is null, an object with a list
Bodies ==
    {[kind |-> k, models |-> <<>>] :
        k \in {"unparseable", "not_object", "no_models", "null_models"}}
    \cup {[kind |-> "object", models |-> ms] : ms \in SeqsUpTo(ModelEntries, MaxModels)}

model_namesReversed(models) ==
    [i \in 1..Len(models) |-> models[Len(models) + 1 - i].name]

\* line 68: [model['name'] for model in ...]
model_names(models) == [i \in 1..Len(models) |-> models[i].name]

\* lines 65-72: what list_available_models returns for a response
ListOfResponse(status, body) ==
    IF ~StatusOk(status) THEN <<>>
    ELSE IF body.kind \in {"unparseable", "not_object", "null_models"} THEN <<>>
    ELSE IF body.kind = "no_models" THEN <<>>
    ELSE IF \E i \in 1..Len(body.models) : "name" \notin DOMAIN body.models[i] THEN <<>>
    ELSE model_names(body.models)

\* check_ollama_availability(base_url) or list_available_models(base_url) is
\* called: lines 46-47 and 64-65, up to the GET of /api/tags
StartProbe(name, base_url) ==
    /\ Begin([name |-> name, base_url |-> base_url])
    /\ pc' = "http"
    /\ ret' = NoRet
    /\ prompt' = None
    /\ calls' = 0
    /\ idx' = 0
    /\ UNCHANGED memory

\* lines 47-48: the server answers the availability probe
CheckResponds(status) ==
    /\ pc = "http"
    /\ op.name = "check_ollama_availability"
    /\ reply' = [outcome |-> "response", status |-> status]
    /\ pc' = "idle"
    /\ ret' = Value(StatusOk(status))
    /\ UNCHANGED <<world, op, prompt, calls, memory, mem0, prevOp, idx, results, img, ocr, failed>>

\* lines 65-72: the server answers the listing
ListResponds(status, body) ==
    /\ pc = "http"
    /\ op.name = "list_available_models"
    /\ reply' = [outcome |-> "response", status |-> status, body |-> body]
    /\ pc' = "idle"
    /\ ret' = Value(ListOfResponse(status, body))
    /\ UNCHANGED <<world, op, prompt, calls, memory, mem0, prevOp, idx, results, img, ocr, failed>>

\* lines 49-50 and 70-71: requests.get raises, and the except branch returns
RequestRaises(e) ==
    /\ pc = "http"
    /\ reply' = [outcome |-> "exception", error |-> e]
    /\ pc' = "idle"
    /\ ret' = Value(IF op.name = "check_ollama_availability" THEN FALSE ELSE <<>>)
    /\ UNCHANGED <<world, op, prompt, calls, memory, mem0, prevOp, idx, results, img, ocr, failed>>

\* the four variables load_config reads
EnvVars == {"OLLAMA_BASE_URL", "OLLAMA_MODEL", "TESSERACT_PATH", "OCR_LANGUAGE"}
EnvValues == {"", "mistral"}
Environments == UNION {[S -> EnvValues] : S \in SUBSET EnvVars}

\* the .env file load_dotenv finds: none or an empty one, or one that gives
\* values to some of the variables
DotenvFiles ==
    {NoVariables,
     [v \in {"OLLAMA_MODEL"} |-> "codellama"],
     [v \in {"OLLAMA_MODEL", "TESSERACT_PATH"} |->
        IF v = "OLLAMA_MODEL" THEN "codellama" ELSE "/usr/bin/tesseract"]}

\* line 18: load_dotenv() sets the variables of the file that are not set yet
load_dotenv(env, file) ==
    [v \in DOMAIN env \cup DOMAIN file |-> IF v \in DOMAIN env THEN env[v] ELSE file[v]]

\* a Python str, as opposed to None
PyStr(s) == [str |-> s]

getenvOrDefault(env, name, default) ==
    IF name \in DOMAIN env /\ env[name] # "" THEN PyStr(env[name]) ELSE default

\* os.getenv(name, default)
getenv(env, name, default) ==
    IF name \in DOMAIN env THEN PyStr(env[name]) ELSE default

\* lines 20-29
Config(env) ==
    [ollama |-> [base_url |-> getenv(env, "OLLAMA_BASE_URL", PyStr("http://localhost:11434")),
                 model    |-> getenv(env, "OLLAMA_MODEL", PyStr("llama2"))],
     ocr    |-> [tesseract_path |-> getenv(env, "TESSERACT_PATH", None),
                 language       |-> getenv(env, "OCR_LANGUAGE", PyStr("eng"))]]

\* load_config() is called and returns: lines 18-31
LoadConfig(file) ==
    /\ BeginOp([name |-> "load_config"])
    /\ environ' = load_dotenv(environ, file)
    /\ pc' = "idle"
    /\ ret' = Value(Config(environ'))
    /\ prompt' = None
    /\ calls' = 0
    /\ idx' = 0
    /\ UNCHANGED <<memory, tesseract_cmd, instances>>

\* the program starts in any environment
InitConfig == InitProgram /\ environ \in Environments

BaseUrls == {"http://localhost:11434"}

NextConfig ==
    \/ pc = "idle" /\ \E u \in BaseUrls : StartProbe("check_ollama_availability", u)
    \/ pc = "idle" /\ \E u \in BaseUrls : StartProbe("list_available_models", u)
    \/ pc = "http" /\ \E s \in Statuses : CheckResponds(s)
    \/ pc = "http" /\ \E s \in Statuses, b \in Bodies : ListResponds(s, b)
    \/ pc = "http" /\ \E e \in RequestErrors : RequestRaises(e)
    \/ pc = "idle" /\ \E file \in DotenvFiles : LoadConfig(file)

SpecConfig == InitConfig /\ [][NextConfig]_vars

\* C19: check_ollama_availability never raises; it returns True exactly when
\* the GET of /api/tags was answered with status 200, and False for every
\* other status and when the request raised (no connection, or the timeout).
C19_AvailableIffStatus200 ==
    Ended("check_ollama_availability") =>
        /\ ret.kind = "value"
        /\ ret.value \in BOOLEAN
        /\ ret.value <=> (reply.outcome = "response" /\ reply.status = 200)

C19_Witness ==
    /\ Ended("check_ollama_availability")
    /\ reply.outcome = "response"
    /\ reply.status = 204
    /\ ret = Value(FALSE)

\* the response lists models that all have a name
ListsModels ==
    /\ reply.outcome = "response"
    /\ reply.status = 200
    /\ reply.body.kind = "object"
    /\ \A i \in 1..Len(reply.body.models) : "name" \in DOMAIN reply.body.models[i]

\* C20: list_available_models never raises; for a response with status 200
\* that lists models it returns their names, one per listed model and in the
\* order of the response; it returns the empty list for every other status,
\* when the request raised, when the response has no model list and when the
\* response or an entry of its list cannot be read.
C20_NamesInOrder ==
    Ended("list_available_models") =>
        /\ ret.kind = "value"
        /\ IF ListsModels
           THEN /\ Len(ret.value) = Len(reply.body.models)
                /\ \A i \in 1..Len(ret.value) : ret.value[i] = reply.body.models[i].name
           ELSE ret.value = <<>>

C20_Witness ==
    /\ Ended("list_available_models")
    /\ ListsModels
    /\ ret = Value(<<"mistral", "llama2">>)

-----------------------------------------------------------------------------
(* Claims about load_config *)

\* the value of a setting read from variable name of the environment
SettingOf(name, default) ==
    IF name \in DOMAIN environ THEN [str |-> environ[name]] ELSE default

\* C21: load_config returns exactly the sections ollama and ocr; each of
\* base_url, model, tesseract_path and language is the value of its own
\* variable when the variable is set in the environment load_config reads
\* (the environment of the process after line 18 has added the variables of a
\* .env file that were not set), an empty value included, and otherwise its
\* default: http://localhost:11434, llama2, None and eng.
C21_SettingsFromEnvironment ==
    Ended("load_config") =>
        /\ ret.kind = "value"
        /\ DOMAIN ret.value = {"ollama", "ocr"}
        /\ DOMAIN ret.value.ollama = {"base_url", "model"}
        /\ DOMAIN ret.value.ocr = {"tesseract_path", "language"}
        /\ ret.value.ollama.base_url =
              SettingOf("OLLAMA_BASE_URL", [str |-> "http://localhost:11434"])
        /\ ret.value.ollama.model = SettingOf("OLLAMA_MODEL", [str |-> "llama2"])
        /\ ret.value.ocr.tesseract_path = SettingOf("TESSERACT_PATH", None)
        /\ ret.value.ocr.language = SettingOf("OCR_LANGUAGE", [str |-> "eng"])

C21_Witness ==
    /\ Ended("load_config")
    /\ DOMAIN environ = {"OLLAMA_MODEL", "OCR_LANGUAGE"}
    /\ environ["OLLAMA_MODEL"] = ""
    /\ ret.value.ollama.model = [str |-> ""]
    /\ ret.value.ollama.base_url = [str |-> "http://localhost:11434"]
    /\ ret.value.ocr.tesseract_path = None
    /\ ret.value.ocr.language = [str |-> "mistral"]

-----------------------------------------------------------------------------
(* Several agent objects of one process *)

MaxInstances == 2

NewAIAgentWithGreeting(model, base_url, temperature) ==
    [kind |-> "AIAgent", model |-> model, base_url |-> base_url,
     temperature |-> temperature, memory |-> <<AI(<<"h", "i">>)>>, tools |-> <<>>]

\* AIAgent.__init__, lines 43-61: the attributes of the new object; the
\* temperature is in tenths
NewAIAgent(model, base_url, temperature) ==
    [kind |-> "AIAgent", model |-> model, base_url |-> base_url,
     temperature |-> temperature, memory |-> <<>>, tools |-> <<>>]

\* OCRAgent.__init__, lines 48-51 and 58-62: the attributes of the new object;
\* tesseract_path is not one of them
NewOCRAgent(model, base_url, language) ==
    [kind |-> "OCRAgent", model |-> model, base_url |-> base_url, language |-> language]

\* lines 54-55 of ocr_agent.py: the module attribute after the constructor ran
tesseract_cmd_after(cmd, tesseract_path) ==
    IF tesseract_path # None /\ tesseract_path.str # "" THEN tesseract_path.str ELSE cmd

clear_memoryResets(self) == NewAIAgent("llama2", self.base_url, self.temperature)

\* AIAgent.clear_memory, line 224, on the object self
clear_memory(self) == [self EXCEPT !.memory = Clear(self.memory)]

ModelNames == {"llama2", "mistral"}
Temperatures == {7}
TesseractPaths == {None, PyStr(""), PyStr("/opt/a/tesseract"), PyStr("/opt/b/tesseract")}

\* the caller runs a constructor or an operation of object number self from its
\* call to its end, with n calls of the model runtime
Whole(o, result, n) ==
    /\ pc = "idle"
    /\ pc' = "idle"
    /\ op' = o
    /\ ret' = result
    /\ calls' = n
    /\ prevOp' = [name |-> op.name, mem0 |-> mem0]
    /\ UNCHANGED <<prompt, reply, memory, mem0, idx, results, img, ocr, failed, environ>>

\* AIAgent(model=..., temperature=...) is evaluated
ConstructAIAgent(model, temperature) ==
    /\ Len(instances) < MaxInstances
    /\ Whole([name |-> "AIAgent", self |-> Len(instances) + 1], Value(None), 0)
    /\ instances' = Append(instances,
                           NewAIAgent(model, "http://localhost:11434", temperature))
    /\ UNCHANGED tesseract_cmd

\* OCRAgent(tesseract_path=...) is evaluated
ConstructOCRAgent(tesseract_path) ==
    /\ Len(instances) < MaxInstances
    /\ Whole([name |-> "OCRAgent", self |-> Len(instances) + 1], Value(None), 0)
    /\ instances' = Append(instances, NewOCRAgent("llama2", "http://localhost:11434", "eng"))
    /\ tesseract_cmd' = tesseract_cmd_after(tesseract_cmd, tesseract_path)

\* chat(message) of object i, when the model runtime answers r
ChatOn(i, message, r) ==
    /\ instances[i].kind = "AIAgent"
    /\ Len(instances[i].memory) < MaxTurns
    /\ Whole([name |-> "chat", self |-> i], Value(Strip(r)), 1)
    /\ instances' = [instances EXCEPT ![i].memory = SaveContext(@, message, r)]
    /\ UNCHANGED tesseract_cmd

\* chat(message) of object i, when the call of the model runtime fails
ChatFailsOn(i) ==
    /\ instances[i].kind = "AIAgent"
    /\ Whole([name |-> "chat", self |-> i], Raised(ModelUnavailable), 1)
    /\ UNCHANGED <<instances, tesseract_cmd>>

\* clear_memory() of object i
ClearOn(i) ==
    /\ instances[i].kind = "AIAgent"
    /\ Whole([name |-> "clear_memory", self |-> i], Value(None), 0)
    /\ instances' = [instances EXCEPT ![i] = clear_memory(@)]
    /\ UNCHANGED tesseract_cmd

NextInstances ==
    \/ \E model \in ModelNames, t \in Temperatures : ConstructAIAgent(model, t)
    \/ \E p \in TesseractPaths : ConstructOCRAgent(p)
    \/ \E i \in 1..Len(instances), r \in ChatReplies : ChatOn(i, <<"a">>, r)
    \/ \E i \in 1..Len(instances) : ChatFailsOn(i)
    \/ \E i \in 1..Len(instances) : ClearOn(i)

SpecInstances == Init /\ [][NextInstances]_vars

\* C22 as stated: a constructor or an operation of one object changes no other
\* object, and it does not change the engine path the OCRAgent objects that
\* exist run.
C22_NoSharedState ==
    [][\A j \in 1..Len(instances) :
          j # op'.self =>
             /\ instances'[j] = instances[j]
             /\ instances[j].kind = "OCRAgent" => tesseract_cmd' = tesseract_cmd]_vars

\* C23: clear_memory of an object, from every log, leaves its log empty and its
\* model, endpoint and temperature as they were, and changes no other object;
\* on an empty log it changes nothing, and a second clear_memory right after a
\* first changes nothing.
C23_ClearIsIdempotent ==
    [][op'.name = "clear_memory" =>
          /\ Len(instances') = Len(instances)
          /\ instances'[op'.self].memory = <<>>
          /\ instances'[op'.self].model = instances[op'.self].model
          /\ instances'[op'.self].base_url = instances[op'.self].base_url
          /\ instances'[op'.self].temperature = instances[op'.self].temperature
          /\ \A j \in 1..Len(instances) : j # op'.self => instances'[j] = instances[j]
          /\ instances[op'.self].memory = <<>> => instances' = instances
          /\ (op.name = "clear_memory" /\ op.self = op'.self) => instances' = instances
          /\ ret'.kind = "value"]_vars

\* a log of two turns was cleared on an object built for the model mistral
C23_Witness ==
    /\ op.name = "clear_memory"
    /\ prevOp.name = "chat"
    /\ instances[op.self].memory = <<>>
    /\ instances[op.self].model = "mistral"
    /\ \E j \in 1..Len(instances) :
          /\ j # op.self
          /\ instances[j].kind = "AIAgent"
          /\ instances[j].memory # <<>>

\* C24: when a constructor has returned, it has returned an object, no call of
\* the model runtime and no request to the server has been made, and the log
\* of a new AIAgent is empty.
C24_ConstructionCallsNothing ==
    op.name \in {"AIAgent", "OCRAgent"} =>
        /\ pc = "idle"
        /\ ret.kind = "value"
        /\ calls = 0
        /\ prompt = None
        /\ op.self = Len(instances)
        /\ instances[op.self].kind = op.name
        /\ op.name = "AIAgent" => instances[op.self].memory = <<>>

\* a second AIAgent was constructed after a chat of the first, whose call of
\* the model runtime had failed
C24_Witness ==
    /\ op.name = "AIAgent"
    /\ prevOp.name = "chat"
    /\ Len(instances) = 2
    /\ instances[1].kind = "AIAgent"
    /\ instances[1].memory = <<>>
    /\ instances[2].memory = <<>>

-----------------------------------------------------------------------------
(* Claims about the turns of the conversation log *)

\* the step in which a chat returns its answer
ChatSucceeds == op.name = "chat" /\ pc = "model" /\ pc' = "idle" /\ ret'.kind = "value"

\* C25: every step but clear_memory keeps the turns the log holds, in place
\* and unchanged; the log grows only when a chat returns its answer, and then
\* by exactly the user turn of that chat followed by an assistant turn, so k
\* successful chats since the last clear_memory leave 2k turns in call order
\* whatever reason, summarize, analyze_sentiment and extract_info calls and
\* failed chats lie between; and the chat history of the prompt of a chat is
\* the whole log at its call.
C25_AppendOnlyLog ==
    [][/\ op'.name # "clear_memory" =>
             /\ Len(memory') >= Len(memory)
             /\ SubSeq(memory', 1, Len(memory)) = memory
       /\ ChatSucceeds =>
             /\ Len(memory') = Len(memory) + 2
             /\ memory'[Len(memory) + 1] = [role |-> "human", content |-> op.message]
             /\ memory'[Len(memory) + 2].role = "ai"
       /\ (op'.name # "clear_memory" /\ ~ChatSucceeds) => memory' = memory
       /\ (pc = "idle" /\ op'.name = "chat") =>
             /\ prompt'[2] = [val |-> memory]
             /\ prompt'[4] = [val |-> op'.message]]_vars

\* the second successful chat since the log was empty, with a summarize
\* between the two
C25_Witness ==
    /\ Ended("chat")
    /\ ret.kind = "value"
    /\ prevOp.name = "summarize"
    /\ Len(prevOp.mem0) = 2
    /\ Len(memory) = 4
    /\ prompt[2] = [val |-> SubSeq(memory, 1, 2)]
    /\ memory[3] = Human(op.message)

ChatReturned == Ended("chat") /\ ret.kind = "value"

\* C26 as stated: after a successful chat the last turn of the log is the
\* assistant turn whose content is the string chat returned.
C26_AssistantTurnIsReturned ==
    ChatReturned => memory[Len(memory)] = [role |-> "ai", content |-> ret.value]

\* C26: after a successful chat the last turn of the log is the assistant turn
\* whose content is the answer of the model runtime as it was received, and
\* chat returned this content without the whitespace it begins and ends with;
\* the two are the same string only when the answer has no such whitespace.
C26_AssistantTurnIsRawAnswer ==
    ChatReturned =>
        /\ memory[Len(memory)] = [role |-> "ai", content |-> reply]
        /\ IsTrimmed(ret.value, memory[Len(memory)].content)
        /\ (ret.value = memory[Len(memory)].content)
              <=> (reply = <<>> \/ (~IsSpace(reply[1]) /\ ~IsSpace(reply[Len(reply)])))

C26_Witness ==
    /\ ChatReturned
    /\ memory[Len(memory)].content = <<" ", "b", "\n">>
    /\ ret.value = <<"b">>

\* C27: between operations the log has an even number of turns, the odd ones
\* user turns and the even ones assistant turns, whatever successful chats,
\* failed chats and clear_memory calls came before.
C27_TurnsAlternate ==
    pc = "idle" =>
        /\ Len(memory) % 2 = 0
        /\ \A i \in 1..Len(memory) :
              memory[i].role = IF i % 2 = 1 THEN "human" ELSE "ai"

\* an exchange, then a chat that failed, then a second exchange
C27_Witness ==
    /\ Ended("chat")
    /\ ret.kind = "value"
    /\ prevOp.name = "chat"
    /\ Len(prevOp.mem0) = 2
    /\ Len(mem0) = 2
    /\ Len(memory) = 4

-----------------------------------------------------------------------------
(* Claims about the extraction from an image that cannot be decoded *)

DirectExtraction == op.name \in {"extract_text", "extract_text_with_confidence"}

\* C28 as stated: extract_text and extract_text_with_confidence never hand an
\* image that could not be decoded to the OCR primitive, and the only error
\* they raise that does not come from the OCR engine at work on a decoded image
\* is the image-load error, with preprocessing and without.
C28_SameImageLoadError ==
    DirectExtraction =>
        /\ ~(pc = "ocr" /\ img = PyNone)
        /\ (pc = "idle" /\ ret.kind = "raise" /\ ret.error # OCREngineError)
              => ret = Raised(ImageLoadError)

-----------------------------------------------------------------------------
(* Claims about an analysis that fails after the OCR extraction *)

\* the step in which the model call of the analysis of a document fails
AnalysisFails ==
    /\ pc = "model"
    /\ op.name \in {"process_document", "batch_process"}
    /\ failed' # failed

\* C29: when the analysis of a document fails, the OCR extraction of that
\* document has succeeded and its result is given up: process_document returns
\* no result and the error reaches its caller; inside batch_process the entry
\* recorded for the document holds its path and the error description and
\* nothing else, the outcomes recorded before stay, and the loop goes on to the
\* next entry, or returns the outcomes when there is none.
C29_AnalysisFailureGivesNoResult ==
    [][AnalysisFails =>
          /\ "text" \in DOMAIN ocr /\ ocr.text # <<>>
          /\ IF InBatch
             THEN /\ results' = Append(results, [image_path |-> op.image_paths[idx],
                                                 error |-> ModelUnavailable.msg])
                  /\ idx' = idx + 1
                  /\ IF idx < Len(op.image_paths)
                     THEN pc' = "load" /\ ret'.kind = "none"
                     ELSE pc' = "idle" /\ ret' = Value(results')
             ELSE /\ pc' = "idle"
                  /\ ret' = Raised(ModelUnavailable)
                  /\ results' = results]_vars

\* three inputs of which the analysis of the second failed, and the third was
\* processed after it
C29_Witness ==
    /\ Ended("batch_process")
    /\ Len(op.image_paths) = 3
    /\ failed = {2}
    /\ ret.kind = "value"
    /\ Len(ret.value) = 3
    /\ ret.value[2] = [image_path |-> op.image_paths[2], error |-> ModelUnavailable.msg]
    /\ "extracted_text" \in DOMAIN ret.value[3]
    /\ calls >= 2

-----------------------------------------------------------------------------
(* Claims about the arithmetic of the confidence *)

\* the score of a row cut to a whole number toward zero
Truncated(conf) == IF conf >= 0 THEN conf \div ConfScale ELSE -((-conf) \div ConfScale)

\* the cut scores of the rows of data whose cut score is positive
CountedScores(data) ==
    LET cut == [i \in 1..Len(data) |-> Truncated(data[i].conf)]
    IN  SelectSeq(cut, LAMBDA n : n > 0)

\* C30: a row counts when its score cut to a whole number toward zero is
\* positive, so a row whose score lies strictly between 0 and 1 adds nothing to
\* text, confidence or word count; the confidence is the mean of the cut scores
\* of the rows that count; and with scores from -1 to 100 the confidence is 0
\* when the word count is 0 and lies between 1 and 100 otherwise.
C30_TruncatedScores ==
    (Ended("extract_text_with_confidence") /\ ret.kind = "value") =>
        LET r == ret.value
            data == r.details
            counted == CountedScores(data)
            without == SelectSeq(data, LAMBDA t : ~(t.conf > 0 /\ t.conf < ConfScale))
        IN  /\ r.word_count = Len(counted)
            /\ r.confidence.num = Sum(counted)
            /\ r.confidence.den = IF counted = <<>> THEN 1 ELSE Len(counted)
            /\ r.text = OcrResult(without).text
            /\ r.word_count = OcrResult(without).word_count
            /\ r.confidence = OcrResult(without).confidence
            /\ (\A i \in 1..Len(data) : data[i].conf \in (-ConfScale)..(100 * ConfScale)) =>
                  IF r.word_count = 0
                  THEN r.confidence.num = 0
                  ELSE /\ r.confidence.num >= r.confidence.den
                       /\ r.confidence.num <= 100 * r.confidence.den

\* a result over a score between 0 and 1, which is left out, the score 100
\* and a fractional score above 1, which counts as 2
C30_Witness ==
    /\ Ended("extract_text_with_confidence")
    /\ ret.kind = "value"
    /\ Len(ret.value.details) = 3
    /\ ret.value.details[1].conf = 1
    /\ ret.value.details[2].conf = 100 * ConfScale
    /\ ret.value.details[3].conf = 2 * ConfScale + 1
    /\ ret.value.word_count = 2
    /\ ret.value.confidence = [num |-> 102, den |-> 2]

====
